---- MODULE Spec2Model ----
(***************************************************************************)
(* A model of the recruiting-review backend: the folder loader and disk    *)
(* scan of backend/services.py, the review API of backend/routes.py and    *)
(* the Candidate table of backend/models.py.                               *)
(*                                                                         *)
(* Python strings are sequences of one-character strings.  An Optional     *)
(* column is <<>> for None and <<v>> for the value v.  A value parsed from *)
(* JSON is a tagged record (PyNone, PyStr, PyList, PyDict).                *)
(***************************************************************************)
EXTENDS Integers, Sequences, FiniteSets, TLC

\* ------------------------------------------------------------------ bounds
\* The applicant folders that may exist under the root are F[1..NumFolders].
NumFolders == 2
\* utc_now() returns values in 0..MaxClock.
MaxClock == 1
\* filter_urls is applied to lists of at most MaxUrls entries.
MaxUrls == 3
\* The searched texts have at most MaxTextLen characters, the queries at
\* most MaxQueryLen.
MaxTextLen == 3
MaxQueryLen == 2
\* The database sessions that may run a disk scan at the same time.
NumSessions == 2
\* The flatteners are applied to lists of at most MaxRecords records.
MaxRecords == 2

\* --------------------------------------------------------- Python strings
None == <<>>
Some(v) == <<v>>
IsNone(o) == o = <<>>
Val(o) == o[1]

Min(a, b) == IF a <= b THEN a ELSE b

\* str.replace(old, new) for one-character old and new.
Replace(s, old, new) == [i \in 1..Len(s) |-> IF s[i] = old THEN new ELSE s[i]]

\* Python's `sub in s` on strings.
Contains(sub, s) ==
    \E i \in 1..(Len(s) - Len(sub) + 1) : SubSeq(s, i, i + Len(sub) - 1) = sub

Whitespace == {" ", "\n", "\t"}

RECURSIVE LStrip(_)
LStrip(s) == IF s # <<>> /\ Head(s) \in Whitespace THEN LStrip(Tail(s)) ELSE s

RECURSIVE RStrip(_)
RStrip(s) ==
    IF s # <<>> /\ s[Len(s)] \in Whitespace
    THEN RStrip(SubSeq(s, 1, Len(s) - 1))
    ELSE s

\* str.strip()
Strip(s) == RStrip(LStrip(s))

\* sep.join(parts)
RECURSIVE Join(_, _)
Join(sep, parts) ==
    IF parts = <<>> THEN <<>>
    ELSE IF Len(parts) = 1 THEN parts[1]
    ELSE parts[1] \o sep \o Join(sep, Tail(parts))

\* s.split(sep) for a one-character sep: always at least one piece.
RECURSIVE Split(_, _)
Split(s, sep) ==
    IF \A i \in 1..Len(s) : s[i] # sep THEN <<s>>
    ELSE LET k == CHOOSE i \in 1..Len(s) :
                      s[i] = sep /\ \A j \in 1..(i - 1) : s[j] # sep
         IN <<SubSeq(s, 1, k - 1)>> \o Split(SubSeq(s, k + 1, Len(s)), sep)

UpperAscii ==
    <<"A", "B", "C", "D", "E", "F", "G", "H", "I", "J", "K", "L", "M",
      "N", "O", "P", "Q", "R", "S", "T", "U", "V", "W", "X", "Y", "Z">>
LowerAscii ==
    <<"a", "b", "c", "d", "e", "f", "g", "h", "i", "j", "k", "l", "m",
      "n", "o", "p", "q", "r", "s", "t", "u", "v", "w", "x", "y", "z">>
Digits == <<"0", "1", "2", "3", "4", "5", "6", "7", "8", "9">>

\* The characters of the model in code-point order.
CodePoints ==
    <<"\t", "\n", " ", "%", "+", "-", ".", "/">> \o Digits \o <<"@">>
    \o UpperAscii \o <<"\\", "_">> \o LowerAscii

Ord(c) == CHOOSE i \in 1..Len(CodePoints) : CodePoints[i] = c

\* a < b as SQLite's BINARY collation and Python order strings.
RECURSIVE StrLess(_, _)
StrLess(a, b) ==
    IF b = <<>> THEN FALSE
    ELSE IF a = <<>> THEN TRUE
    ELSE IF Head(a) # Head(b) THEN Ord(Head(a)) < Ord(Head(b))
    ELSE StrLess(Tail(a), Tail(b))

\* The lower case of an ASCII letter, any other character itself.
LowerChar(c) ==
    IF \E i \in 1..Len(UpperAscii) : UpperAscii[i] = c
    THEN LowerAscii[CHOOSE i \in 1..Len(UpperAscii) : UpperAscii[i] = c]
    ELSE c

\* lower(s)
Lower(s) == [i \in 1..Len(s) |-> LowerChar(s[i])]

\* ---------------------------------------------------------- Python values
PyNone == [t |-> "none"]
PyStr(s) == [t |-> "str", s |-> s]
PyList(xs) == [t |-> "list", xs |-> xs]
PyDict(d) == [t |-> "dict", d |-> d]
EmptyDict == PyDict(<<>>)

\* The result of a call: a value, or the exception it raised.
Ok(v) == [ok |-> TRUE, exc |-> "", v |-> v]
Raise(e) == [ok |-> FALSE, exc |-> e, v |-> PyNone]

\* bool(v)
Truthy(v) ==
    CASE v.t = "none" -> FALSE
      [] v.t = "str" -> v.s # <<>>
      [] v.t = "list" -> v.xs # <<>>
      [] v.t = "dict" -> DOMAIN v.d # {}

\* str(v) as an f-string formats it.
Format(v) ==
    CASE v.t = "none" -> <<"N", "o", "n", "e">>
      [] v.t = "str" -> v.s

\* obj.get(key, default): only a dict has .get.
DictGet(obj, key, default) ==
    IF obj.t # "dict" THEN Raise("AttributeError")
    ELSE Ok(IF key \in DOMAIN obj.d THEN obj.d[key] ELSE default)

\* The column value of an Optional[str] attribute assigned v.
AsOptStr(v) == IF v.t = "none" THEN None ELSE Some(v.s)

\* json.dumps(v): the serialised text of v, kept apart from v itself.
JsonDumps(v) == [json |-> v]

\* ------------------------------------------------------------ services.py
ArxivOrg == <<"a", "r", "x", "i", "v", ".", "o", "r", "g">>

\* A filter that drops only the entries equal to "arxiv.org".
FilterUrlsKeepUnlessEqual(u) == u # ArxivOrg

\* The condition of the comprehension of filter_urls.
FilterUrlsKeep(u) == ~Contains(ArxivOrg, u)

\* filter_urls on a list of strings.
FilterUrls(urls) == SelectSeq(urls, FilterUrlsKeep)

\* filter_urls on whatever personal_info.json gave for displayUrls: iterating
\* None, or testing `"arxiv.org" in u` for a u that is None, is a TypeError;
\* a string is iterated character by character, an empty object gives nothing.
FilterUrlsPy(urls) ==
    IF urls.t = "none" THEN Raise("TypeError")
    ELSE IF urls.t = "list" /\ \E i \in 1..Len(urls.xs) : urls.xs[i].t # "str"
    THEN Raise("TypeError")
    ELSE LET strs == CASE urls.t = "list" -> [i \in 1..Len(urls.xs) |-> urls.xs[i].s]
                       [] urls.t = "str" -> [i \in 1..Len(urls.s) |-> <<urls.s[i]>>]
                       [] urls.t = "dict" -> <<>>
             kept == FilterUrls(strs)
         IN Ok(PyList([i \in 1..Len(kept) |-> PyStr(kept[i])]))

\* load_json: FileNotFoundError and JSONDecodeError give {}, any other error
\* of open() or read() propagates, a parsed document is returned whatever its
\* top-level type.
LoadJson(file) ==
    CASE file.k = "missing" -> Ok(EmptyDict)
      [] file.k = "invalid" -> Ok(EmptyDict)
      [] file.k = "unreadable" -> Raise("PermissionError")
      [] file.k = "json" -> Ok(file.v)

\* exp.get(key, "") of one record of a list.
FieldOf(rec, key) == DictGet(rec, key, PyStr(<<>>)).v

\* The text of one experience record, <<>> when it contributes nothing.
ExperiencePart(exp) ==
    LET title == FieldOf(exp, "title")
        work == FieldOf(exp, "work")
    IN IF Truthy(title) \/ Truthy(work)
       THEN <<Strip(Format(title) \o <<" ">> \o Format(work))>>
       ELSE <<>>

\* The text of one education record, <<>> when it contributes nothing.
EducationPart(edu) ==
    LET degree == FieldOf(edu, "degree")
        major == FieldOf(edu, "major")
        school == FieldOf(edu, "school")
    IN IF Truthy(degree) \/ Truthy(major) \/ Truthy(school)
       THEN <<Strip(Format(degree) \o <<" ">> \o Format(major)
                    \o <<" ">> \o Format(school))>>
       ELSE <<>>

RECURSIVE ExperienceParts(_)
ExperienceParts(recs) ==
    IF recs = <<>> THEN <<>>
    ELSE ExperiencePart(Head(recs)) \o ExperienceParts(Tail(recs))

RECURSIVE EducationParts(_)
EducationParts(recs) ==
    IF recs = <<>> THEN <<>>
    ELSE EducationPart(Head(recs)) \o EducationParts(Tail(recs))

CommaSpace == <<",", " ">>

\* The exception the loop over v raises, "" when it raises none: iterating
\* None is a TypeError, and an element that is no dict has no .get.
LoopError(v) ==
    CASE v.t = "none" -> "TypeError"
      [] v.t = "str" -> IF v.s = <<>> THEN "" ELSE "AttributeError"
      [] v.t = "dict" -> IF DOMAIN v.d = {} THEN "" ELSE "AttributeError"
      [] v.t = "list" ->
            IF \E i \in 1..Len(v.xs) : v.xs[i].t # "dict" THEN "AttributeError"
            ELSE ""

\* The records the loop over v visits when it raises nothing.
Items(v) == IF v.t = "list" THEN v.xs ELSE <<>>

FlattenExperience(experience) ==
    IF LoopError(experience) # "" THEN Raise(LoopError(experience))
    ELSE Ok(PyStr(Join(CommaSpace, ExperienceParts(Items(experience)))))

FlattenEducation(education) ==
    IF LoopError(education) # "" THEN Raise(LoopError(education))
    ELSE Ok(PyStr(Join(CommaSpace, EducationParts(Items(education)))))

NonEmptyLine(l) == l # <<>>

\* extract_pdf_text: None without PyMuPDF, without the file, or when the
\* library raises; otherwise the pages' non-empty texts joined by a blank
\* line, each line stripped, empty lines dropped, None when nothing is left.
ExtractPdfText(cv, hasPyMuPdf) ==
    IF ~hasPyMuPdf THEN None
    ELSE IF cv.k = "missing" THEN None
    ELSE IF cv.k = "corrupt" THEN None
    ELSE LET text_parts == SelectSeq(cv.pages, NonEmptyLine)
             full_text == Join(<<"\n", "\n">>, text_parts)
             split == Split(full_text, "\n")
             lines == [i \in 1..Len(split) |-> Strip(split[i])]
             cleaned == Join(<<"\n">>, SelectSeq(lines, NonEmptyLine))
         IN IF cleaned # <<>> THEN Some(cleaned) ELSE None

\* Candidate(...) as load_candidate_from_folder builds it: the review fields
\* take their defaults, created_at and updated_at their default_factory.
NewCandidate(f, t1, t2) ==
    [id |-> None,
     folder_name |-> f.folder_name,
     full_name |-> AsOptStr(f.full_name),
     title |-> AsOptStr(f.title),
     primary_email |-> AsOptStr(f.primary_email),
     linkedin_url |-> AsOptStr(f.linkedin_url),
     display_urls |-> Some(JsonDumps(f.display_urls)),
     experience |-> Some(JsonDumps(f.experience)),
     education |-> Some(JsonDumps(f.education)),
     experience_text |-> AsOptStr(f.experience_text),
     education_text |-> AsOptStr(f.education_text),
     cv_text |-> f.cv_text,
     starred |-> FALSE,
     notes |-> None,
     viewed |-> FALSE,
     viewed_at |-> None,
     created_at |-> t1,
     updated_at |-> t2]

\* load_candidate_from_folder(folder): name is folder.name, c the folder's
\* files, t1 and t2 what utc_now() returns for created_at and updated_at.
LoadCandidateFromFolder(name, c, hasPyMuPdf, t1, t2) ==
    LET basic_info == LoadJson(c.basic)
        personal_info == LoadJson(c.personal)
    IN IF ~basic_info.ok THEN Raise(basic_info.exc)
       ELSE IF ~personal_info.ok THEN Raise(personal_info.exc)
       ELSE
    LET data == DictGet(basic_info.v, "data", EmptyDict)
        personal_data == DictGet(personal_info.v, "data", EmptyDict)
    IN IF ~data.ok THEN Raise(data.exc)
       ELSE IF ~personal_data.ok THEN Raise(personal_data.exc)
       ELSE
    LET full_name == DictGet(data.v, "fullName", PyStr(Replace(name, "-", " ")))
    IN IF ~full_name.ok THEN Raise(full_name.exc)
       ELSE
    LET title == DictGet(data.v, "title", PyNone)
        primary_email == DictGet(personal_data.v, "primaryEmail", PyNone)
    IN IF ~primary_email.ok THEN Raise(primary_email.exc)
       ELSE
    LET linkedin_url == DictGet(personal_data.v, "linkedinUrl", PyNone)
        display_urls == DictGet(personal_data.v, "displayUrls", PyList(<<>>))
        filtered_urls == FilterUrlsPy(display_urls.v)
    IN IF ~filtered_urls.ok THEN Raise(filtered_urls.exc)
       ELSE
    LET experience == DictGet(data.v, "experience", PyList(<<>>))
        education == DictGet(data.v, "education", PyList(<<>>))
        experience_text == FlattenExperience(experience.v)
        education_text == FlattenEducation(education.v)
    IN IF ~experience_text.ok THEN Raise(experience_text.exc)
       ELSE IF ~education_text.ok THEN Raise(education_text.exc)
       ELSE Ok(NewCandidate([folder_name |-> name,
                             full_name |-> full_name.v,
                             title |-> title.v,
                             primary_email |-> primary_email.v,
                             linkedin_url |-> linkedin_url.v,
                             display_urls |-> filtered_urls.v,
                             experience |-> experience.v,
                             education |-> education.v,
                             experience_text |-> experience_text.v,
                             education_text |-> education_text.v,
                             cv_text |-> ExtractPdfText(c.cv, hasPyMuPdf)],
                            t1, t2))

\* ------------------------------------------------------------------ state
VARIABLES
    rootExists,   \* whether the applicants root directory exists
    disk,         \* disk[i]: the entry of the root named FolderName(i)
    hasPyMuPdf,   \* HAS_PYMUPDF: whether `import fitz` succeeded
    store,        \* the committed rows of the candidate table; store[i].id = i
    clock,        \* the last value utc_now() returned
    resp,         \* the outcome of the last operation
    everViewed,   \* history: the ids of the rows whose viewed has been true
    sess,         \* sess[s]: the scan of database session s while it runs
    lock,         \* the session holding the database's write lock, 0 for none
    arg           \* the input of the function under test

vars == <<rootExists, disk, hasPyMuPdf, store, clock, resp, everViewed, sess,
          lock, arg>>

\* The values utc_now() may return after it returned c: time does not go back.
UtcNow(c) == c..Min(c + 1, MaxClock)

\* ------------------------------------------------------------------- disk
Letters == <<"a", "b", "c", "d", "e", "f">>

\* The name of the i-th folder; the names sort in the order of i.
FolderName(i) == <<Letters[i], "-", "x">>

Absent == [k |-> "absent"]
PlainFile == [k |-> "file"]
Dir(basic, personal, cv) ==
    [k |-> "dir", basic |-> basic, personal |-> personal, cv |-> cv]

Missing == [k |-> "missing"]
Invalid == [k |-> "invalid"]
Unreadable == [k |-> "unreadable"]
Json(v) == [k |-> "json", v |-> v]
CorruptPdf == [k |-> "corrupt"]
Pdf(pages) == [k |-> "pdf", pages |-> pages]

\* The files of the folders the scan is run on.
PersonName(i) == <<Letters[i], " ", "X">>
Github == <<"g", "i", "t", ".", "i", "o">>
ArxivAbs == <<"h", "/">> \o ArxivOrg \o <<"/", "1">>

GoodBasic(i) ==
    Json(PyDict([data |-> PyDict(
        [fullName |-> PyStr(PersonName(i)),
         title |-> PyStr(<<"D", "e", "v">>),
         experience |-> PyList(<<PyDict([title |-> PyStr(<<"D", "e", "v">>),
                                         work |-> PyStr(<<"M", "e", "t", "a">>)])>>),
         education |-> PyList(<<PyDict([degree |-> PyStr(<<"B", "S">>),
                                        school |-> PyStr(<<"M", "I", "T">>)])>>)])]))

GoodPersonal ==
    Json(PyDict([data |-> PyDict(
        [primaryEmail |-> PyStr(<<"x", "@", "y">>),
         displayUrls |-> PyList(<<PyStr(Github), PyStr(ArxivAbs)>>)])]))

GoodDir(i) == Dir(GoodBasic(i), GoodPersonal, Pdf(<<<<" ", "c", "v", "\n">>>>))
\* A folder with no files at all.
EmptyDir == Dir(Missing, Missing, Missing)
\* basic_info.json is {"data": null}.
NullDataDir == Dir(Json(PyDict([data |-> PyNone])), Missing, CorruptPdf)
\* basic_info.json is {"data": {"fullName": null}}.
NullNameDir ==
    Dir(Json(PyDict([data |-> PyDict([fullName |-> PyNone])])), Invalid, Missing)

\* Neither JSON file parses.
InvalidDir == Dir(Invalid, Invalid, Missing)

DiskEntries(i) ==
    {Absent, PlainFile, EmptyDir, InvalidDir, GoodDir(i), NullDataDir, NullNameDir}

\* sorted(path.iterdir()): the entries of the root, by name.
Listing == SelectSeq([i \in 1..NumFolders |-> i], LAMBDA i : disk[i] # Absent)

\* ------------------------------------------------------------- the table
\* A table whose folder_name column has no unique index.
NoUniqueIndex(rows, name) == FALSE

\* folder_name is declared unique: the INSERT of a row whose folder_name a
\* row already has fails.
UniqueViolation(rows, name) == \E j \in 1..Len(rows) : rows[j].folder_name = name

\* full_name is declared `str`, a NOT NULL column.
NotNullViolation(row) == IsNone(row.full_name)

\* The flush of a session: its pending rows are INSERTed, in the order they
\* were added, into the session's transaction; a row gets the next rowid.
\* sc is the scan's state, rows the committed rows.
RECURSIVE Flush(_, _)
Flush(sc, rows) ==
    IF sc.pending = <<>> THEN Ok(sc)
    ELSE LET row == Head(sc.pending)
             seen == rows \o sc.flushed
         IN IF NotNullViolation(row) \/ UniqueViolation(seen, row.folder_name)
            THEN Raise("IntegrityError")
            ELSE Flush([sc EXCEPT !.pending = Tail(@),
                                  !.flushed = Append(@, [row EXCEPT
                                      !.id = Some(Len(seen) + 1)])],
                       rows)

\* A scan that has listed the root and looked at no entry yet.
NewScan(listing) ==
    [todo |-> listing, pending |-> <<>>, flushed |-> <<>>,
     loaded |-> 0, skipped |-> 0]

\* select(Candidate).where(Candidate.folder_name == name).first() is a row:
\* the session sees the committed rows and those of its own transaction.
Existing(sc, rows, name) ==
    \E r \in {rows[j] : j \in 1..Len(rows)} \cup
              {sc.flushed[j] : j \in 1..Len(sc.flushed)} : r.folder_name = name

\* One iteration of the loop of load_candidates_from_disk, on the entry
\* Head(sc.todo): the SELECT flushes the session first.
ScanFolder(sc, rows, t1, t2) ==
    LET i == Head(sc.todo)
        rest == [sc EXCEPT !.todo = Tail(@)]
    IN IF disk[i].k # "dir" THEN Ok(rest)
       ELSE LET fl == Flush(rest, rows)
            IN IF ~fl.ok THEN fl
               ELSE IF Existing(fl.v, rows, FolderName(i))
               THEN Ok([fl.v EXCEPT !.skipped = @ + 1])
               ELSE LET c == LoadCandidateFromFolder(FolderName(i), disk[i],
                                                      hasPyMuPdf, t1, t2)
                    IN IF ~c.ok THEN c
                       ELSE Ok([fl.v EXCEPT !.pending = Append(@, c.v),
                                            !.loaded = @ + 1])

\* Whether ScanFolder reaches Candidate(...), which reads the clock.
ReadsClock(sc, rows) ==
    LET r == ScanFolder(sc, rows, 0, 0) IN r.ok /\ r.v.loaded > sc.loaded

\* The times the two utc_now() calls of an iteration may return.
ScanTimes(sc, rows, c) ==
    IF ReadsClock(sc, rows)
    THEN {<<t1, t2>> \in UtcNow(c) \X (c..MaxClock) : t2 \in UtcNow(t1)}
    ELSE {<<c, c>>}

\* A commit that also clears the star of the rows stored before.
AfterCommitUnstarring(rows, sc) ==
    [j \in 1..Len(rows) |-> [rows[j] EXCEPT !.starred = FALSE]] \o sc.flushed

\* The table once the transaction of the scan sc is committed.
AfterCommit(rows, sc) == rows \o sc.flushed

\* session.commit(): flush, then the transaction's rows become committed.
CommitScan(sc, rows) ==
    LET fl == Flush(sc, rows)
    IN IF ~fl.ok THEN fl ELSE Ok(fl.v)

\* The whole loop and the commit, run with no other session writing: the set
\* of outcomes [res, c], res the commit's result and c the clock after it.
RECURSIVE ScanAll(_, _, _)
ScanAll(sc, rows, c) ==
    IF sc.todo = <<>> THEN {[res |-> CommitScan(sc, rows), c |-> c]}
    ELSE UNION {LET r == ScanFolder(sc, rows, tt[1], tt[2])
                IN IF ~r.ok THEN {[res |-> r, c |-> c]}
                   ELSE ScanAll(r.v, rows, tt[2]) : tt \in ScanTimes(sc, rows, c)}

\* ---------------------------------------------------------------- routes.py
Ids == 1..(NumFolders + 1)

NoData == <<>>

\* The outcome of an operation: the request (op, id and the body or query
\* sent), the status and the payload of the answer.
Response(op, id, body, status, data) ==
    [op |-> op, id |-> id, body |-> body, status |-> status, data |-> data]

\* No request is being answered.
Idle == Response("idle", 0, NoData, "ok", NoData)
Ready == resp.op = "idle"

\* The answer of the last operation is sent: the next request can come.
Respond ==
    /\ ~Ready
    /\ resp' = Idle
    /\ UNCHANGED <<rootExists, disk, hasPyMuPdf, store, clock, everViewed,
                   sess, lock, arg>>

\* session.get(Candidate, candidate_id) is a row.
Found(id) == id \in 1..Len(store)

\* A commit needs the write lock: "database is locked" while a scan holds it.
Locked == lock # 0

\* A get_candidate that stores the viewed candidate under no id.
MarkViewedLosingId(row, t1, t2) ==
    [row EXCEPT !.viewed = TRUE, !.viewed_at = Some(t1), !.updated_at = t2,
                !.id = None]

\* The row of GET /candidates/{id} once it is marked as viewed.
MarkViewed(row, t1, t2) ==
    [row EXCEPT !.viewed = TRUE, !.viewed_at = Some(t1), !.updated_at = t2]

\* A get_candidate that takes the stamping branch on every call.
AlreadyViewedIgnored(row) == FALSE

\* `if not candidate.viewed` is not taken.
AlreadyViewed(row) == row.viewed

\* GET /candidates/{candidate_id}
GetCandidate(id) ==
    /\ Ready
    /\ IF ~Found(id)
       THEN /\ resp' = Response("get", id, NoData, "not_found", NoData)
            /\ UNCHANGED <<store, clock, everViewed>>
       ELSE IF AlreadyViewed(store[id])
       THEN /\ resp' = Response("get", id, NoData, "ok", store[id])
            /\ UNCHANGED <<store, clock, everViewed>>
       ELSE IF Locked
       THEN /\ resp' = Response("get", id, NoData, "error", NoData)
            /\ UNCHANGED <<store, clock, everViewed>>
       ELSE \E t1 \in UtcNow(clock) : \E t2 \in UtcNow(t1) :
            /\ store' = [store EXCEPT ![id] = MarkViewed(@, t1, t2)]
            /\ clock' = t2
            /\ everViewed' = everViewed \cup {id}
            /\ resp' = Response("get", id, NoData, "ok", store'[id])
    /\ UNCHANGED <<rootExists, disk, hasPyMuPdf, sess, lock, arg>>

\* The bodies of PATCH: CandidateUpdate, each field None when not supplied.
OptBool == {None, Some(TRUE), Some(FALSE)}
NoteTexts == {<<>>, <<"o", "k">>}
OptNotes == {None} \cup {Some(n) : n \in NoteTexts}
Updates == [starred : OptBool, notes : OptNotes, viewed : OptBool]

\* An update_candidate that never stamps viewed_at.
StampsViewedAtNever(row, update) == FALSE

\* Whether update_candidate stamps viewed_at.
StampsViewedAt(row, update) ==
    ~IsNone(update.viewed) /\ Val(update.viewed) /\ IsNone(row.viewed_at)

\* An update_candidate that assigns notes without the `is not None` test.
ApplyUpdateOverwritingNotes(row, update, t1, t2) ==
    [row EXCEPT
        !.starred = IF ~IsNone(update.starred) THEN Val(update.starred) ELSE @,
        !.notes = update.notes,
        !.viewed = IF ~IsNone(update.viewed) THEN Val(update.viewed) ELSE @,
        !.viewed_at = IF StampsViewedAt(row, update) THEN Some(t1) ELSE @,
        !.updated_at = t2]

\* The row update_candidate writes: t1 is the time of the viewed_at stamp,
\* t2 that of updated_at.
ApplyUpdate(row, update, t1, t2) ==
    [row EXCEPT
        !.starred = IF ~IsNone(update.starred) THEN Val(update.starred) ELSE @,
        !.notes = IF ~IsNone(update.notes) THEN update.notes ELSE @,
        !.viewed = IF ~IsNone(update.viewed) THEN Val(update.viewed) ELSE @,
        !.viewed_at = IF StampsViewedAt(row, update) THEN Some(t1) ELSE @,
        !.updated_at = t2]

\* PATCH /candidates/{candidate_id}
UpdateCandidate(id, update) ==
    /\ Ready
    /\ IF ~Found(id)
       THEN /\ resp' = Response("patch", id, update, "not_found", NoData)
            /\ UNCHANGED <<store, clock, everViewed>>
       ELSE IF Locked
       THEN /\ resp' = Response("patch", id, update, "error", NoData)
            /\ UNCHANGED <<store, clock, everViewed>>
       ELSE \E t1 \in (IF StampsViewedAt(store[id], update)
                       THEN UtcNow(clock) ELSE {clock}) :
            \E t2 \in UtcNow(t1) :
            /\ store' = [store EXCEPT ![id] = ApplyUpdate(@, update, t1, t2)]
            /\ clock' = t2
            /\ everViewed' = IF store'[id].viewed
                             THEN everViewed \cup {id} ELSE everViewed
            /\ resp' = Response("patch", id, update, "ok", store'[id])
    /\ UNCHANGED <<rootExists, disk, hasPyMuPdf, sess, lock, arg>>

\* bool(c.notes)
HasNotes(row) == ~IsNone(row.notes) /\ Val(row.notes) # <<>>

\* A get_stats that counts `c.notes is not None`.
StatsCountingEmptyNotes(rows) ==
    LET total == Len(rows)
        viewed == Cardinality({j \in 1..Len(rows) : rows[j].viewed})
        starred == Cardinality({j \in 1..Len(rows) : rows[j].starred})
        with_notes == Cardinality({j \in 1..Len(rows) : ~IsNone(rows[j].notes)})
    IN [total |-> total, viewed |-> viewed, unviewed |-> total - viewed,
        starred |-> starred, with_notes |-> with_notes]

\* The payload of GET /stats: sum(1 for c in all_candidates if ...).
Stats(rows) ==
    LET total == Len(rows)
        viewed == Cardinality({j \in 1..Len(rows) : rows[j].viewed})
        starred == Cardinality({j \in 1..Len(rows) : rows[j].starred})
        with_notes == Cardinality({j \in 1..Len(rows) : HasNotes(rows[j])})
    IN [total |-> total, viewed |-> viewed, unviewed |-> total - viewed,
        starred |-> starred, with_notes |-> with_notes]

\* GET /stats
GetStats ==
    /\ Ready
    /\ resp' = Response("stats", 0, NoData, "ok", Stats(store))
    /\ UNCHANGED <<rootExists, disk, hasPyMuPdf, store, clock, everViewed,
                   sess, lock, arg>>

\* The rows in the order of ORDER BY full_name: any order of the row
\* numbers that is sorted by name (rows of equal names come in any order).
OrderByFullName(rows) ==
    {p \in [1..Len(rows) -> 1..Len(rows)] :
        /\ \A i, j \in 1..Len(rows) : i # j => p[i] # p[j]
        /\ \A i, j \in 1..Len(rows) :
             i < j => ~StrLess(Val(rows[p[j]].full_name), Val(rows[p[i]].full_name))}

\* The entry of the list view for a row.
Summary(c) ==
    [id |-> c.id, folder_name |-> c.folder_name, full_name |-> c.full_name,
     title |-> c.title, starred |-> c.starred, viewed |-> c.viewed,
     has_notes |-> HasNotes(c)]

\* GET /candidates
GetCandidates ==
    /\ Ready
    /\ \E p \in OrderByFullName(store) :
         resp' = Response("list", 0, NoData, "ok",
                          [i \in 1..Len(store) |-> Summary(store[p[i]])])
    /\ UNCHANGED <<rootExists, disk, hasPyMuPdf, store, clock, everViewed,
                   sess, lock, arg>>

\* A get_resume that does not look for the file.
ResumeAlwaysExists(name) == TRUE

\* get_applicants_path() / folder_name / "cv.pdf" exists.
ResumeExists(name) ==
    /\ rootExists
    /\ \E i \in 1..NumFolders :
         FolderName(i) = name /\ disk[i].k = "dir" /\ disk[i].cv.k # "missing"

\* GET /candidates/{candidate_id}/resume
GetResume(id) ==
    /\ Ready
    /\ resp' = IF ~Found(id) THEN Response("resume", id, NoData, "not_found", NoData)
               ELSE IF ~ResumeExists(store[id].folder_name)
               THEN Response("resume", id, NoData, "not_found", NoData)
               ELSE Response("resume", id, NoData, "ok", store[id].folder_name)
    /\ UNCHANGED <<rootExists, disk, hasPyMuPdf, store, clock, everViewed,
                   sess, lock, arg>>

\* p LIKE-matches s, both already lower case: % is any run of characters,
\* _ any one character, and there is no escape character.
RECURSIVE Like(_, _)
Like(p, s) ==
    IF p = <<>> THEN s = <<>>
    ELSE IF Head(p) = "%"
    THEN \E k \in 0..Len(s) : Like(Tail(p), SubSeq(s, k + 1, Len(s)))
    ELSE /\ s # <<>>
         /\ Head(p) = "_" \/ Head(p) = Head(s)
         /\ Like(Tail(p), Tail(s))

\* column.ilike(pattern), which is lower(column) LIKE lower(pattern): NULL
\* for a NULL column, which the WHERE clause takes as false.
ILike(column, pattern) ==
    ~IsNone(column) /\ Like(Lower(pattern), Lower(Val(column)))

\* The characters re.escape puts a backslash before.
SpecialChars == {"+", "-", ".", " ", "\t", "\n", "\\"}

\* re.escape(q)
RECURSIVE ReEscape(_)
ReEscape(q) ==
    IF q = <<>> THEN <<>>
    ELSE (IF Head(q) \in SpecialChars THEN <<"\\", Head(q)>> ELSE <<Head(q)>>)
         \o ReEscape(Tail(q))

WordBoundary == [k |-> "b", c |-> ""]
Literal(c) == [k |-> "lit", c |-> c]

\* re.compile of a pattern of \b, escaped characters and plain characters:
\* its sequence of items.
RECURSIVE ReCompile(_)
ReCompile(p) ==
    IF p = <<>> THEN <<>>
    ELSE IF Head(p) = "\\" /\ Len(p) >= 2
    THEN <<IF p[2] = "b" THEN WordBoundary ELSE Literal(p[2])>>
         \o ReCompile(SubSeq(p, 3, Len(p)))
    ELSE <<Literal(Head(p))>> \o ReCompile(Tail(p))

\* \w
IsWordChar(c) ==
    \/ \E i \in 1..Len(UpperAscii) : UpperAscii[i] = c \/ LowerAscii[i] = c
    \/ \E i \in 1..Len(Digits) : Digits[i] = c
    \/ c = "_"

\* \b after the first k characters of text.
AtWordBoundary(text, k) ==
    (k > 0 /\ IsWordChar(text[k])) # (k < Len(text) /\ IsWordChar(text[k + 1]))

\* The compiled items match text from its (k+1)-th character on, with
\* re.IGNORECASE.
RECURSIVE MatchHere(_, _, _)
MatchHere(items, text, k) ==
    IF items = <<>> THEN TRUE
    ELSE IF Head(items).k = "b"
    THEN AtWordBoundary(text, k) /\ MatchHere(Tail(items), text, k)
    ELSE /\ k < Len(text)
         /\ LowerChar(text[k + 1]) = LowerChar(Head(items).c)
         /\ MatchHere(Tail(items), text, k + 1)

\* word_pattern.search(text)
ReSearch(items, text) == \E k \in 0..Len(text) : MatchHere(items, text, k)

\* r'\b' + re.escape(q) + r'\b', compiled
WordPattern(q) == ReCompile(<<"\\", "b">> \o ReEscape(q) \o <<"\\", "b">>)

\* The five fields search looks at.
SearchFields(c) ==
    <<c.full_name, c.experience_text, c.education_text, c.title, c.cv_text>>

\* The WHERE clause of the query of search_candidates.
SubstringMatch(c, q) ==
    \E i \in 1..5 : ILike(SearchFields(c)[i], <<"%">> \o q \o <<"%">>)

\* matches_whole_word(c): `field and ...` skips None and "".
MatchesWholeWord(c, q) ==
    \E i \in 1..5 :
        /\ ~IsNone(SearchFields(c)[i])
        /\ Val(SearchFields(c)[i]) # <<>>
        /\ ReSearch(WordPattern(q), Val(SearchFields(c)[i]))

\* The entry of the search results for a row.
SearchResult(c) ==
    [id |-> c.id, folder_name |-> c.folder_name, full_name |-> c.full_name,
     title |-> c.title, education_text |-> c.education_text,
     experience_text |-> c.experience_text, starred |-> c.starred,
     viewed |-> c.viewed]

\* The rows search_candidates returns for q, in the order p of the table.
SearchRows(rows, p, q) ==
    LET ordered == [i \in 1..Len(rows) |-> rows[p[i]]]
        candidates == SelectSeq(ordered, LAMBDA c : SubstringMatch(c, q))
    IN SelectSeq(candidates, LAMBDA c : MatchesWholeWord(c, q))

\* GET /search?q=...  (q has at least one character)
SearchCandidates(q) ==
    /\ Ready
    /\ Len(q) >= 1
    /\ \E p \in OrderByFullName(store) :
         LET found == SearchRows(store, p, q)
         IN resp' = Response("search", 0, q, "ok",
                             [i \in 1..Len(found) |-> SearchResult(found[i])])
    /\ UNCHANGED <<rootExists, disk, hasPyMuPdf, store, clock, everViewed,
                   sess, lock, arg>>

\* ------------------------------------------------------------ the disk scan
\* load_candidates_from_disk(session) run from start to end with no other
\* session writing, as the lifespan handler runs it.  An exception leaves the
\* function before session.commit(), and closing the session rolls back.
LoadCandidatesFromDisk ==
    /\ Ready
    /\ ~Locked
    /\ IF ~rootExists
       THEN /\ resp' = Response("scan", 0, NoData, "no_root", NoData)
            /\ UNCHANGED <<store, clock>>
       ELSE \E o \in ScanAll(NewScan(Listing), store, clock) :
            IF o.res.ok
            THEN /\ store' = AfterCommit(store, o.res.v)
                 /\ clock' = o.c
                 /\ resp' = Response("scan", 0, NoData, "ok",
                                     [loaded_count |-> o.res.v.loaded,
                                      skipped_count |-> o.res.v.skipped,
                                      before |-> Len(store)])
            ELSE /\ store' = store
                 /\ clock' = o.c
                 /\ resp' = Response("scan", 0, NoData, o.res.exc, NoData)
    /\ UNCHANGED <<rootExists, disk, hasPyMuPdf, everViewed, sess, lock, arg>>

\* --------------------------------------------------------- specifications
NoSessions == <<>>

InitCommon ==
    /\ store = <<>>
    /\ clock = 0
    /\ resp = Idle
    /\ everViewed = {}
    /\ lock = 0

\* The review API over the folders of a healthy root.
Init ==
    /\ InitCommon
    /\ rootExists = TRUE
    /\ disk = [i \in 1..NumFolders |-> GoodDir(i)]
    /\ hasPyMuPdf = TRUE
    /\ sess = NoSessions
    /\ arg = <<>>

Meta == <<"M", "e", "t", "a">>
Queries == {Meta, <<"e", "t", "a">>}

Next ==
    \/ LoadCandidatesFromDisk
    \/ GetCandidates
    \/ \E id \in Ids : GetCandidate(id)
    \/ \E id \in Ids : GetResume(id)
    \/ \E id \in Ids : \E update \in Updates : UpdateCandidate(id, update)
    \/ \E q \in Queries : SearchCandidates(q)
    \/ GetStats
    \/ Respond

Spec == Init /\ [][Next]_vars

\* ------------------------------------------------- filter_urls on its own
NearArxiv == <<"a", "r", "x", "i", "v", ".", "o", "r">>
UrlSamples == {Github, ArxivAbs, ArxivOrg, NearArxiv, <<>>}
UrlLists == UNION {[1..n -> UrlSamples] : n \in 0..MaxUrls}

NoDisk == [i \in 1..NumFolders |-> Absent]

InitUrls ==
    /\ InitCommon
    /\ rootExists = FALSE
    /\ disk = NoDisk
    /\ hasPyMuPdf = FALSE
    /\ sess = NoSessions
    /\ arg \in UrlLists

\* filter_urls(arg)
FilterUrlsCall ==
    /\ Ready
    /\ resp' = Response("filter_urls", 0, arg, "ok", FilterUrls(arg))
    /\ UNCHANGED <<rootExists, disk, hasPyMuPdf, store, clock, everViewed,
                   sess, lock, arg>>

NextUrls == FilterUrlsCall \/ Respond

SpecUrls == InitUrls /\ [][NextUrls]_vars

\* ------------------------------------- load_candidate_from_folder on its own
Data(d) == Json(PyDict([data |-> d]))
AnExperience == PyDict([title |-> PyStr(<<"D", "e", "v">>)])

\* basic_info.json: missing, unreadable, unparseable, and documents of the
\* shapes a JSON file can have around the fields the loader reads.
BasicFiles ==
    {Missing, Unreadable, Invalid,
     Json(PyList(<<>>)), Json(PyNone), Json(EmptyDict),
     Data(PyNone), Data(PyList(<<>>)), Data(EmptyDict),
     Data(PyDict([fullName |-> PyNone])),
     Data(PyDict([fullName |-> PyStr(PersonName(1)), title |-> PyNone])),
     Data(PyDict([experience |-> PyNone])),
     Data(PyDict([education |-> PyList(<<PyStr(<<"B", "S">>)>>)])),
     Data(PyDict([experience |-> PyList(<<AnExperience,
                                          PyDict([work |-> PyNone])>>)])),
     GoodBasic(1)}

\* personal_info.json, likewise.
PersonalFiles ==
    {Missing, Unreadable, Invalid,
     Json(PyStr(<<"x">>)), Data(PyNone), Data(EmptyDict),
     Data(PyDict([displayUrls |-> PyNone])),
     Data(PyDict([displayUrls |-> PyList(<<PyStr(Github), PyNone>>)])),
     GoodPersonal}

CvFiles == {Missing, CorruptPdf, Pdf(<<<<" ", "\n">>>>), Pdf(<<<<" ", "c", "v", "\n">>>>)}

FolderNames == {FolderName(1), <<"a", "-", "b", "-", "c">>, <<"a", "b">>}

LoaderInputs ==
    [name : FolderNames, basic : BasicFiles, personal : PersonalFiles, cv : CvFiles]

InitLoader ==
    /\ InitCommon
    /\ rootExists = FALSE
    /\ disk = NoDisk
    /\ hasPyMuPdf \in BOOLEAN
    /\ sess = NoSessions
    /\ arg \in LoaderInputs

\* load_candidate_from_folder(arg)
LoadCall ==
    /\ Ready
    /\ \E t1 \in UtcNow(clock) : \E t2 \in UtcNow(t1) :
         LET r == LoadCandidateFromFolder(arg.name, arg, hasPyMuPdf, t1, t2)
         IN /\ resp' = Response("load", 0, arg, IF r.ok THEN "ok" ELSE r.exc, r.v)
            /\ clock' = IF r.ok THEN t2 ELSE clock
    /\ UNCHANGED <<rootExists, disk, hasPyMuPdf, store, everViewed, sess, lock,
                   arg>>

NextLoader == LoadCall \/ Respond

SpecLoader == InitLoader /\ [][NextLoader]_vars

\* ---------------------------------------------------- search over a scan
SearchChars == {"a", "A", "+", " ", "_"}
SearchTexts == UNION {[1..n -> SearchChars] : n \in 0..MaxTextLen}
SearchQueries == UNION {[1..n -> SearchChars] : n \in 1..MaxQueryLen}
SearchFieldNames ==
    {"full_name", "title", "experience_text", "education_text", "cv_text"}

\* A name no query matches.
Zed == PyStr(<<"Z">>)

\* A folder whose files give `text` for the searched field `field`.
SearchDir(field, text) ==
    CASE field = "full_name" ->
            Dir(Data(PyDict([fullName |-> PyStr(text)])), Missing, Missing)
      [] field = "title" ->
            Dir(Data(PyDict([fullName |-> Zed, title |-> PyStr(text)])),
                Missing, Missing)
      [] field = "experience_text" ->
            Dir(Data(PyDict([fullName |-> Zed,
                             experience |-> PyList(<<PyDict([title |-> PyStr(text)])>>)])),
                Missing, Missing)
      [] field = "education_text" ->
            Dir(Data(PyDict([fullName |-> Zed,
                             education |-> PyList(<<PyDict([school |-> PyStr(text)])>>)])),
                Missing, Missing)
      [] field = "cv_text" ->
            Dir(Data(PyDict([fullName |-> Zed])), Missing, Pdf(<<text>>))

\* The second folder of the searched root.
OtherDir == SearchDir("full_name", <<"a", "+", " ", "A">>)

InitSearch ==
    /\ InitCommon
    /\ rootExists = TRUE
    /\ \E field \in SearchFieldNames : \E text \in SearchTexts :
         disk = [i \in 1..NumFolders |->
                    IF i = 1 THEN SearchDir(field, text)
                    ELSE IF i = NumFolders THEN OtherDir ELSE Absent]
    /\ hasPyMuPdf = TRUE
    /\ sess = NoSessions
    /\ arg = <<>>

NextSearch ==
    \/ LoadCandidatesFromDisk
    \/ \E q \in SearchQueries : SearchCandidates(q)
    \/ Respond

SpecSearch == InitSearch /\ [][NextSearch]_vars

\* ------------------------------------------ the scan of any root directory
InitScan ==
    /\ InitCommon
    /\ rootExists \in BOOLEAN
    /\ disk \in [1..NumFolders -> UNION {DiskEntries(i) : i \in 1..NumFolders}]
    /\ \A i \in 1..NumFolders : disk[i] \in DiskEntries(i)
    /\ ~rootExists => disk = NoDisk
    /\ hasPyMuPdf \in BOOLEAN
    /\ sess = NoSessions
    /\ arg = <<>>

NextScan ==
    \/ LoadCandidatesFromDisk
    \/ Respond

SpecScan == InitScan /\ [][NextScan]_vars

\* ------------------------------------------- scans in concurrent sessions
SessionIds == 1..NumSessions

ScanResult(status, loaded, skipped) ==
    [status |-> status, loaded_count |-> loaded, skipped_count |-> skipped]

NoResult == ScanResult("none", 0, 0)

\* A session that runs no scan; res is the outcome of its last one.
IdleSession(res) == [pc |-> "idle", sc |-> NewScan(<<>>), res |-> res]

\* The scan of session s left load_candidates_from_disk by an exception:
\* closing the session rolls its transaction back.
Failed(exc) == IdleSession(ScanResult(exc, 0, 0))

\* An INSERT takes SQLite's write lock, which the transaction keeps until
\* it commits or rolls back.
Writes(sc) ==
    /\ sc.pending # <<>>
    /\ IF sc.todo = <<>> THEN TRUE ELSE disk[Head(sc.todo)].k = "dir"

Release(s) == IF lock = s THEN 0 ELSE lock

\* The pass starts: the root is looked up and listed.
BeginScan(s) ==
    /\ Ready
    /\ sess[s].pc = "idle"
    /\ sess' = [sess EXCEPT ![s] =
                   IF ~rootExists THEN IdleSession(ScanResult("no_root", 0, 0))
                   ELSE [pc |-> "scan", sc |-> NewScan(Listing), res |-> NoResult]]
    /\ UNCHANGED <<rootExists, disk, hasPyMuPdf, store, clock, resp,
                   everViewed, lock, arg>>

\* One iteration of the loop, in session s.
ScanStep(s) ==
    /\ Ready
    /\ sess[s].pc = "scan"
    /\ sess[s].sc.todo # <<>>
    /\ Writes(sess[s].sc) => lock \in {0, s}
    /\ \E tt \in ScanTimes(sess[s].sc, store, clock) :
         LET r == ScanFolder(sess[s].sc, store, tt[1], tt[2])
         IN /\ clock' = tt[2]
            /\ IF r.ok
               THEN /\ sess' = [sess EXCEPT ![s].sc = r.v]
                    /\ lock' = IF r.v.flushed # <<>> THEN s ELSE lock
               ELSE /\ sess' = [sess EXCEPT ![s] = Failed(r.exc)]
                    /\ lock' = Release(s)
    /\ UNCHANGED <<rootExists, disk, hasPyMuPdf, store, resp, everViewed, arg>>

\* session.commit() and the print of the two counts, in session s.
FinishScan(s) ==
    /\ Ready
    /\ sess[s].pc = "scan"
    /\ sess[s].sc.todo = <<>>
    /\ Writes(sess[s].sc) => lock \in {0, s}
    /\ LET r == CommitScan(sess[s].sc, store)
       IN IF r.ok
          THEN /\ store' = AfterCommit(store, r.v)
               /\ sess' = [sess EXCEPT ![s] =
                              IdleSession(ScanResult("ok", r.v.loaded, r.v.skipped))]
          ELSE /\ store' = store
               /\ sess' = [sess EXCEPT ![s] = Failed(r.exc)]
    /\ lock' = Release(s)
    /\ UNCHANGED <<rootExists, disk, hasPyMuPdf, clock, resp, everViewed, arg>>

\* The INSERT of session s waited for the write lock of another session
\* longer than the busy timeout: "database is locked".
BusyTimeout(s) ==
    /\ Ready
    /\ sess[s].pc = "scan"
    /\ Writes(sess[s].sc)
    /\ lock \notin {0, s}
    /\ sess' = [sess EXCEPT ![s] = Failed("OperationalError")]
    /\ UNCHANGED <<rootExists, disk, hasPyMuPdf, store, clock, resp,
                   everViewed, lock, arg>>

\* The one body PATCH is sent with while scans run.
StarOnly == [starred |-> Some(TRUE), notes |-> None, viewed |-> None]

InitSessions ==
    /\ InitCommon
    /\ rootExists = TRUE
    /\ disk = [i \in 1..NumFolders |-> GoodDir(i)]
    /\ hasPyMuPdf = TRUE
    /\ sess = [s \in SessionIds |-> IdleSession(NoResult)]
    /\ arg = <<>>

NextSessions ==
    \/ \E s \in SessionIds : BeginScan(s)
    \/ \E s \in SessionIds : ScanStep(s)
    \/ \E s \in SessionIds : FinishScan(s)
    \/ \E s \in SessionIds : BusyTimeout(s)
    \/ \E id \in Ids : GetCandidate(id)
    \/ \E id \in Ids : UpdateCandidate(id, StarOnly)
    \/ Respond

SpecSessions == InitSessions /\ [][NextSessions]_vars

\* ------------------------------- the review API over folders without a CV
InitFiles ==
    /\ InitCommon
    /\ rootExists = TRUE
    /\ disk \in [1..NumFolders -> UNION {{GoodDir(i), EmptyDir} : i \in 1..NumFolders}]
    /\ \A i \in 1..NumFolders : disk[i] \in {GoodDir(i), EmptyDir}
    /\ hasPyMuPdf = TRUE
    /\ sess = NoSessions
    /\ arg = <<>>

NextFiles ==
    \/ LoadCandidatesFromDisk
    \/ \E id \in Ids : GetCandidate(id)
    \/ \E id \in Ids : GetResume(id)
    \/ \E id \in Ids : \E update \in Updates : UpdateCandidate(id, update)
    \/ Respond

SpecFiles == InitFiles /\ [][NextFiles]_vars

\* ------------------------------------- scans of a root that is being edited
\* What a folder of the root can be turned into between two scans.
EditedEntries(i) == {Absent, EmptyDir, GoodDir(i), NullDataDir}

\* The i-th folder of the root is edited, removed or put back.
ChangeFolder(i) ==
    /\ Ready
    /\ rootExists
    /\ \E e \in EditedEntries(i) \ {disk[i]} : disk' = [disk EXCEPT ![i] = e]
    /\ UNCHANGED <<rootExists, hasPyMuPdf, store, clock, resp, everViewed,
                   sess, lock, arg>>

NextRescan ==
    \/ LoadCandidatesFromDisk
    \/ \E i \in 1..NumFolders : ChangeFolder(i)
    \/ \E id \in Ids : GetCandidate(id)
    \/ \E id \in Ids : UpdateCandidate(id, StarOnly)
    \/ Respond

SpecRescan == Init /\ [][NextRescan]_vars

\* ----------------------------------------------- the flatteners on their own
ExperienceFields == <<"title", "work">>
EducationFields == <<"degree", "major", "school">>

\* The text a field holds when it is not empty.
FieldWord ==
    [title |-> <<"D", "e", "v">>, work |-> <<"M", "e", "t", "a">>,
     degree |-> <<"B", "S">>, major |-> <<"C", "S">>, school |-> <<"M", "I", "T">>]

\* The records over `fields`: each field absent, empty or its word.
Records(fields) ==
    LET names == {fields[i] : i \in 1..Len(fields)}
    IN {PyDict([k \in present |->
                  IF k \in filled THEN PyStr(FieldWord[k]) ELSE PyStr(<<>>)]) :
           present \in SUBSET names, filled \in SUBSET names}

RecordLists(fields) == UNION {[1..n -> Records(fields)] : n \in 0..MaxRecords}

FlattenInputs ==
    {[kind |-> "experience", recs |-> l] : l \in RecordLists(ExperienceFields)}
    \cup {[kind |-> "education", recs |-> l] : l \in RecordLists(EducationFields)}

InitFlatten ==
    /\ InitCommon
    /\ rootExists = FALSE
    /\ disk = NoDisk
    /\ hasPyMuPdf = FALSE
    /\ sess = NoSessions
    /\ arg \in FlattenInputs

\* flatten_experience(arg.recs) or flatten_education(arg.recs)
FlattenCall ==
    /\ Ready
    /\ LET r == IF arg.kind = "experience"
                THEN FlattenExperience(PyList(arg.recs))
                ELSE FlattenEducation(PyList(arg.recs))
       IN resp' = Response("flatten", 0, arg, IF r.ok THEN "ok" ELSE r.exc, r.v)
    /\ UNCHANGED <<rootExists, disk, hasPyMuPdf, store, clock, everViewed,
                   sess, lock, arg>>

NextFlatten == FlattenCall \/ Respond

SpecFlatten == InitFlatten /\ [][NextFlatten]_vars

\* ----------------------------------------------------------------- claims
\* The step answers a request `op` on the row id, which exists.
Handles(op, id) == Ready /\ resp'.op = op /\ resp'.id = id /\ Found(id)

\* C1: once viewed_at of a candidate is set, no later operation changes or
\* clears it.
C1_ViewedAtSetOnce ==
    [][\A i \in 1..Len(store) :
          ~IsNone(store[i].viewed_at) => store'[i].viewed_at = store[i].viewed_at]_vars

\* C5: viewed_at is set exactly for the candidates whose viewed flag is or
\* has been true; in particular a viewed candidate has a viewed_at.
C5_ViewedAtIffEverViewed ==
    \A i \in 1..Len(store) :
        /\ ~IsNone(store[i].viewed_at) <=> i \in everViewed
        /\ store[i].viewed => ~IsNone(store[i].viewed_at)

\* A candidate that was viewed and is unviewed again, beside one never viewed.
C5_Witness ==
    /\ \E i \in 1..Len(store) :
         ~store[i].viewed /\ i \in everViewed /\ ~IsNone(store[i].viewed_at)
    /\ \E j \in 1..Len(store) : j \notin everViewed /\ IsNone(store[j].viewed_at)

\* C6: get-candidate on an unviewed candidate answers and stores viewed =
\* true with a viewed_at; get-candidate on a candidate that is viewed, as it
\* is right after that first call, leaves viewed_at as it was.
C6_FirstGetStampsSecondKeeps ==
    [][\A i \in Ids : Handles("get", i) =>
          IF ~store[i].viewed
          THEN /\ resp'.status = "ok"
               /\ store'[i].viewed /\ ~IsNone(store'[i].viewed_at)
               /\ resp'.data.viewed /\ resp'.data.viewed_at = store'[i].viewed_at
          ELSE store'[i].viewed_at = store[i].viewed_at]_vars

\* A get-candidate has been answered without a stamp: the row was stamped by
\* an earlier call and the clock has moved since.
C6_Witness ==
    /\ resp.op = "get" /\ resp.status = "ok"
    /\ resp.data.viewed /\ ~IsNone(resp.data.viewed_at)
    /\ resp.data.updated_at < clock

ReviewFields == {"starred", "notes", "viewed", "viewed_at", "updated_at"}

\* C8: update-candidate sets each of starred, notes, viewed to the supplied
\* value and keeps it when none is supplied, stamps updated_at on every
\* call, stamps viewed_at only when viewed = true is supplied and viewed_at
\* was null, and changes no other field and no other candidate.
C8_PatchIsPartialUpdate ==
    [][\A i \in Ids : Handles("patch", i) =>
          LET u == resp'.body
              old == store[i]
              new == store'[i]
          IN /\ resp'.status = "ok" /\ resp'.data = new
             /\ new.starred = IF IsNone(u.starred) THEN old.starred ELSE Val(u.starred)
             /\ new.notes = IF IsNone(u.notes) THEN old.notes ELSE u.notes
             /\ new.viewed = IF IsNone(u.viewed) THEN old.viewed ELSE Val(u.viewed)
             /\ new.updated_at = clock' /\ clock <= clock'
             /\ IF u.viewed = Some(TRUE) /\ IsNone(old.viewed_at)
                THEN ~IsNone(new.viewed_at) /\ Val(new.viewed_at) \in clock..clock'
                ELSE new.viewed_at = old.viewed_at
             /\ \A f \in DOMAIN old \ ReviewFields : new[f] = old[f]
             /\ Len(store') = Len(store)
             /\ \A j \in 1..Len(store) : j # i => store'[j] = store[j]]_vars

\* An empty body has been answered: only updated_at moved, beside a second
\* candidate.
C8_Witness ==
    /\ resp.op = "patch" /\ resp.status = "ok"
    /\ IsNone(resp.body.starred) /\ IsNone(resp.body.notes) /\ IsNone(resp.body.viewed)
    /\ resp.data.updated_at > resp.data.created_at
    /\ resp.data.starred /\ ~IsNone(resp.data.notes)
    /\ Len(store) >= 2

\* C9: get-stats answers total = the number of stored candidates, viewed and
\* starred = the numbers with the flag true, unviewed = total - viewed,
\* with_notes = the number whose notes are present (a non-empty text); so
\* viewed + unviewed = total and every count is in 0..total.
C9_StatsCountsAreConsistent ==
    resp.op = "stats" =>
        LET d == resp.data
            rows == 1..Len(store)
        IN /\ d.total = Len(store)
           /\ d.viewed = Cardinality({i \in rows : store[i].viewed})
           /\ d.unviewed = Cardinality({i \in rows : ~store[i].viewed})
           /\ d.unviewed = d.total - d.viewed
           /\ d.starred = Cardinality({i \in rows : store[i].starred})
           /\ d.with_notes = Cardinality({i \in rows :
                  store[i].notes # None /\ store[i].notes # Some(<<>>)})
           /\ d.viewed + d.unviewed = d.total
           /\ \A n \in {d.viewed, d.unviewed, d.starred, d.with_notes} :
                  n \in 0..d.total

\* Stats over a viewed, starred candidate with notes and an unviewed one
\* whose notes are the empty text.
C9_Witness ==
    /\ resp.op = "stats"
    /\ resp.data.total >= 2 /\ resp.data.viewed >= 1 /\ resp.data.unviewed >= 1
    /\ resp.data.starred >= 1 /\ resp.data.with_notes >= 1
    /\ \E i \in 1..Len(store) : store[i].notes = Some(<<>>)

\* sub occurs in s, position by position.
Occurs(sub, s) ==
    \E k \in 0..(Len(s) - Len(sub)) : \A j \in 1..Len(sub) : s[k + j] = sub[j]

\* C10: filter_urls returns exactly the entries that do not contain
\* "arxiv.org", in their order and with their multiplicity: the output is the
\* input with precisely the entries containing it struck out.
C10_FilterUrlsKeepsTheRest ==
    resp.op = "filter_urls" =>
        LET urls == resp.body
            out == resp.data
        IN /\ \A i \in 1..Len(out) : ~Occurs(ArxivOrg, out[i])
           /\ \E f \in [1..Len(out) -> 1..Len(urls)] :
                /\ \A i, j \in 1..Len(out) : i < j => f[i] < f[j]
                /\ \A i \in 1..Len(out) : out[i] = urls[f[i]]
                /\ \A k \in 1..Len(urls) :
                     (\E i \in 1..Len(out) : f[i] = k) <=> ~Occurs(ArxivOrg, urls[k])
           /\ urls = <<>> => out = <<>>

\* A list of an arxiv entry between two equal entries that are kept.
C10_Witness ==
    /\ resp.op = "filter_urls"
    /\ Len(resp.body) = 3 /\ Occurs(ArxivOrg, resp.body[2])
    /\ resp.data = <<NearArxiv, NearArxiv>>

\* The document gives no full name: it has no "data" object, or that object
\* has no "fullName", or a null one.
NoFullName(file) ==
    \/ file.k # "json"
    \/ file.v.t # "dict"
    \/ "data" \notin DOMAIN file.v.d
    \/ file.v.d.data.t # "dict"
    \/ "fullName" \notin DOMAIN file.v.d.data.d
    \/ file.v.d.data.d.fullName.t = "none"

\* C3: load_candidate_from_folder raises on no folder content and returns a
\* Candidate; without a fullName its full_name is the folder name with every
\* "-" replaced by a space.
C3_LoaderNeverRaises ==
    resp.op = "load" =>
        /\ resp.status = "ok"
        /\ resp.data.folder_name = resp.body.name
        /\ NoFullName(resp.body.basic) =>
             /\ ~IsNone(resp.data.full_name)
             /\ Len(Val(resp.data.full_name)) = Len(resp.body.name)
             /\ \A i \in 1..Len(resp.body.name) :
                  Val(resp.data.full_name)[i] =
                      IF resp.body.name[i] = "-" THEN " " ELSE resp.body.name[i]

\* q occurs in text, compared without case, with a non-word character or
\* the start of the text before it and a non-word character or the end of
\* the text after it.
OccursDelimited(q, text) ==
    \E k \in 0..(Len(text) - Len(q)) :
        /\ \A j \in 1..Len(q) : LowerChar(text[k + j]) = LowerChar(q[j])
        /\ k = 0 \/ ~IsWordChar(text[k])
        /\ k + Len(q) = Len(text) \/ ~IsWordChar(text[k + Len(q) + 1])

\* The rows in one of whose five fields q occurs so delimited.
DelimitedRows(q) ==
    {j \in 1..Len(store) :
        \E f \in SearchFieldNames :
            ~IsNone(store[j][f]) /\ OccursDelimited(q, Val(store[j][f]))}

\* C4: search returns exactly the candidates in which the whole query occurs,
\* without regard to case, delimited on both ends by a non-word character or
\* an end of the text, in one of the five searched fields.
C4_SearchIsDelimitedMatch ==
    resp.op = "search" =>
        {Val(resp.data[i].id) : i \in 1..Len(resp.data)} = DelimitedRows(resp.body)

\* The immediate subdirectories of the root.
Subdirs == {i \in 1..NumFolders : disk[i].k = "dir"}

Stored(i) == \E j \in 1..Len(store) : store[j].folder_name = FolderName(i)

\* A pass over the root starts in this state and ends in the next.
ScanPass == Ready /\ rootExists /\ resp'.op = "scan"

ScanCounts(loaded, skipped) ==
    /\ resp'.status = "ok"
    /\ resp'.data.loaded_count = loaded
    /\ resp'.data.skipped_count = skipped

\* C2: a pass over a root none of whose N subdirectories is stored loads N,
\* skips 0 and adds N rows; a pass over a root all of whose N subdirectories
\* are stored loads 0, skips N and leaves the number of rows as it was.
C2_ScanIsIdempotent ==
    [][ScanPass =>
          /\ (\A i \in Subdirs : ~Stored(i)) =>
                /\ ScanCounts(Cardinality(Subdirs), 0)
                /\ Len(store') = Len(store) + Cardinality(Subdirs)
          /\ (\A i \in Subdirs : Stored(i)) =>
                /\ ScanCounts(0, Cardinality(Subdirs))
                /\ Len(store') = Len(store)]_vars

\* C7: no two stored candidates have the same folder_name.
C7_FolderNameIsUnique ==
    \A i, j \in 1..Len(store) :
        store[i].folder_name = store[j].folder_name => i = j

\* A pass was refused the row of a folder that a pass interleaved with it
\* had stored in the meantime.
C7_Witness ==
    /\ Len(store) = NumFolders
    /\ \E s \in SessionIds : sess[s].res.status = "IntegrityError"

\* The present, non-empty fields of a record, in the order of `fields`.
PresentFields(rec, fields) ==
    SelectSeq(fields, LAMBDA k : k \in DOMAIN rec.d /\ rec.d[k].s # <<>>)

\* The fields' texts with one space between two of them.
RECURSIVE SpaceJoined(_, _)
SpaceJoined(rec, ks) ==
    IF ks = <<>> THEN <<>>
    ELSE IF Len(ks) = 1 THEN rec.d[ks[1]].s
    ELSE rec.d[ks[1]].s \o <<" ">> \o SpaceJoined(rec, Tail(ks))

\* The texts of the records that have a present, non-empty field, in record
\* order, with ", " between two of them.
RECURSIVE CommaJoined(_, _)
CommaJoined(recs, fields) ==
    IF recs = <<>> THEN <<>>
    ELSE LET ks == PresentFields(Head(recs), fields)
             rest == CommaJoined(Tail(recs), fields)
         IN IF ks = <<>> THEN rest
            ELSE IF rest = <<>> THEN SpaceJoined(Head(recs), ks)
            ELSE SpaceJoined(Head(recs), ks) \o <<",", " ">> \o rest

\* C11: flatten_experience and flatten_education return the ", "-joined
\* texts, in record order, of the records with a non-empty field, a record's
\* text being its present non-empty fields in the fixed order with single
\* spaces between them.
C11_FlattenJoinsPresentFields ==
    resp.op = "flatten" =>
        /\ resp.status = "ok"
        /\ resp.data = PyStr(CommaJoined(resp.body.recs,
                                         IF resp.body.kind = "experience"
                                         THEN ExperienceFields ELSE EducationFields))

\* The rows of `rows` that the i-th folder has.
RowsOf(rows, i) == {j \in 1..Len(rows) : rows[j].folder_name = FolderName(i)}

\* C12: after a pass over an existing root, every immediate subdirectory that
\* was not stored has exactly one row, whatever the JSON files of the other
\* subdirectories of the root are.
C12_EverySubdirIsStored ==
    [][ScanPass =>
          \A i \in Subdirs : ~Stored(i) => Cardinality(RowsOf(store', i)) = 1]_vars

\* The folder of the stored candidate id holds no cv.pdf.
CvMissing(id) ==
    \A i \in 1..NumFolders :
        FolderName(i) = store[id].folder_name =>
            disk[i].k # "dir" \/ disk[i].cv.k = "missing"

\* C13: get-candidate, update-candidate and get-resume-document on an id
\* that is not stored answer not-found and leave the store as it is, and so
\* does get-resume-document on a stored candidate whose folder has no cv.pdf.
C13_NotFoundChangesNothing ==
    [][(Ready /\ resp'.op \in {"get", "patch", "resume"}) =>
          /\ ~Found(resp'.id) => resp'.status = "not_found" /\ store' = store
          /\ (resp'.op = "resume" /\ Found(resp'.id) /\ CvMissing(resp'.id)) =>
                resp'.status = "not_found" /\ store' = store]_vars

\* The resume of a stored, unviewed candidate without a cv.pdf was asked
\* for, beside a stored candidate that has one.
C13_Witness ==
    /\ resp.op = "resume" /\ resp.status = "not_found"
    /\ Found(resp.id) /\ ~store[resp.id].viewed
    /\ \E j \in 1..Len(store) : ~CvMissing(j)

\* The stored candidates: their ids and folder names.
Identities(rows) == {<<rows[j].id, rows[j].folder_name>> : j \in 1..Len(rows)}

\* C14: no step removes a stored candidate, and a step that is not a disk
\* scan neither adds nor removes one.
C14_OnlyTheScanCreates ==
    [][/\ Identities(store) \subseteq Identities(store')
       /\ resp'.op # "scan" =>
             Identities(store') = Identities(store) /\ Len(store') = Len(store)]_vars

\* Every folder was loaded by the scan, a later scan has added nothing, and
\* candidates have been viewed and starred through the API since.
C14_Witness ==
    /\ resp.op = "scan" /\ resp.status = "ok" /\ resp.data.before = NumFolders
    /\ Len(store) = NumFolders
    /\ \E j \in 1..Len(store) : store[j].viewed /\ store[j].starred

\* C15: a disk scan leaves every row that is stored when it starts as it
\* is, whatever the files of its folder have become.
C15_ScanKeepsStoredRows ==
    [][ScanPass =>
          /\ Len(store') >= Len(store)
          /\ \A j \in 1..Len(store) : store'[j] = store[j]]_vars

\* A scan has skipped a starred, viewed candidate whose folder has lost its
\* files since it was loaded, and has loaded another folder.
C15_Witness ==
    /\ resp.op = "scan" /\ resp.status = "ok"
    /\ resp.data.skipped_count >= 1 /\ resp.data.loaded_count >= 1
    /\ \E j \in 1..resp.data.before :
          /\ store[j].starred /\ store[j].viewed
          /\ ~IsNone(store[j].cv_text)
          /\ \E i \in 1..NumFolders :
                FolderName(i) = store[j].folder_name /\ disk[i] = EmptyDir

\* The step answers get-candidate on a stored candidate.
GetsStored == resp'.op = "get" /\ Found(resp'.id)

\* C16: list, search, stats and resume steps leave the store as it is, and
\* so does get-candidate on a candidate that is viewed; among the API steps
\* only update-candidate and get-candidate on an unviewed candidate change it.
C16_ReadsChangeNothing ==
    [][/\ resp'.op \in {"list", "search", "stats", "resume"} => store' = store
       /\ (GetsStored /\ store[resp'.id].viewed) => store' = store
       /\ store' # store =>
             \/ resp'.op \in {"patch", "scan"}
             \/ GetsStored /\ ~store[resp'.id].viewed]_vars

\* get-candidate has been answered for a candidate that a patch had marked
\* viewed, starred and annotated, and that was last written before the clock
\* moved.
C16_Witness ==
    /\ resp.op = "get" /\ resp.status = "ok"
    /\ resp.data.viewed /\ resp.data.starred
    /\ resp.data.notes = Some(<<"o", "k">>)
    /\ resp.data.viewed_at = Some(resp.data.updated_at)
    /\ resp.data.updated_at < clock
    /\ store[resp.id] = resp.data

====
